---- MODULE Spec2Model ----
(***************************************************************************)
(* The asset registry chaincode (assetregistry.go) as a state machine.     *)
(*                                                                         *)
(* One step is one Invoke: parseArgs, newAssetContext (creator, GetState,  *)
(* proto.Unmarshal), execute (dispatch to create / lock / show / transfer  *)
(* / query), and the PutState of the handler.  The ledger collaborator     *)
(* (GetState, PutState, GetCreator) is taken to answer without error, and  *)
(* each invocation runs to completion against the state it read.           *)
(***************************************************************************)
EXTENDS Integers, Sequences, FiniteSets, TLC

\* Longest ownership history a transfer may build (history is unbounded in the code).
MaxHistory == 3

\* The ledgers (channels), each with its own key space.
Channels == {"ch1", "ch2"}
LocalChannel == "ch1"
OtherChannel(channel) == IF channel = "ch1" THEN "ch2" ELSE "ch1"
\* Asset keys.
Keys == {"k1", "k2"}
AssetKey == "k1"
\* Invoker identities (stub.GetCreator is always set and not empty).
Identities == {"alice", "bob"}
\* Byte strings passed as the optional third argument: a channel name (lock,
\* show), an owner id (transfer), or an argument the operation does not take
\* (create, query).  The empty byte string is a present argument.
ChannelNames == {"", "ch2"}
OwnerIds == {"", "alice", "bob"}
ExtraArgs == {"", "extra"}

VARIABLES
    ledger,         \* ledger[c][k]: the bytes stored at key k of channel c, or None
    call,           \* the last invocation: its stub, its assetContext, its response
    lockSucceeded   \* the <<channel, key>> pairs on which a lock has succeeded

vars == <<ledger, call, lockSucceeded>>

\* A Go value that may be nil: None is nil, Some(x) is a set value.
None == <<>>
Some(x) == <<x>>

----------------------------------------------------------------------------
(* Asset and Owner messages and their wire encoding.                       *)

Owner(id) == [Id |-> id]
Asset(locked, history) == [LockedToChannel |-> locked, History |-> history]

RECURSIVE MarshalHistory(_)
MarshalHistory(history) ==
    IF history = <<>> THEN <<>>
    ELSE <<"history", history[1].Id>> \o MarshalHistory(Tail(history))

\* proto.Marshal: field by field, a field holding its zero value is left out.
Marshal(asset) ==
    (IF asset.LockedToChannel = "" THEN <<>>
     ELSE <<"lockedToChannel", asset.LockedToChannel>>)
    \o MarshalHistory(asset.History)

RECURSIVE UnmarshalInto(_, _)
UnmarshalInto(bytes, asset) ==
    IF bytes = <<>> THEN asset
    ELSE LET rest == SubSeq(bytes, 3, Len(bytes)) IN
         IF bytes[1] = "lockedToChannel"
         THEN UnmarshalInto(rest, [asset EXCEPT !.LockedToChannel = bytes[2]])
         ELSE UnmarshalInto(rest,
                  [asset EXCEPT !.History = Append(@, Owner(bytes[2]))])

\* proto.Unmarshal into a fresh &Asset{}: fields not on the wire keep their zero value.
Unmarshal(bytes) == UnmarshalInto(bytes, Asset("", <<>>))

----------------------------------------------------------------------------
(* Invoke and what it calls.                                               *)

\* parseArgs whose three-argument case does not fall through to the two-argument one.
parseArgs_NoFallthrough(args) ==
    CASE Len(args) = 3 ->
           [function |-> "", key |-> "", arg |-> Some(args[3]), err |-> ""]
      [] Len(args) = 2 ->
           [function |-> args[1], key |-> args[2], arg |-> None, err |-> ""]
      [] Len(args) = 1 ->
           [function |-> "", key |-> "", arg |-> None,
            err |-> "Invoke called with only one argument"]
      [] Len(args) = 0 ->
           [function |-> "", key |-> "", arg |-> None,
            err |-> "Invoke called with no arguments"]
      [] OTHER ->
           [function |-> "", key |-> "", arg |-> None,
            err |-> "Invoke called with too many arguments"]

parseArgs(args) ==
    CASE Len(args) = 3 ->
           [function |-> args[1], key |-> args[2], arg |-> Some(args[3]), err |-> ""]
      [] Len(args) = 2 ->
           [function |-> args[1], key |-> args[2], arg |-> None, err |-> ""]
      [] Len(args) = 1 ->
           [function |-> "", key |-> "", arg |-> None,
            err |-> "Invoke called with only one argument"]
      [] Len(args) = 0 ->
           [function |-> "", key |-> "", arg |-> None,
            err |-> "Invoke called with no arguments"]
      [] OTHER ->
           [function |-> "", key |-> "", arg |-> None,
            err |-> "Invoke called with too many arguments"]

\* stub.GetState: the bytes at key, nil when nothing was ever put there.
GetState(state, key) == IF key \in DOMAIN state THEN state[key] ELSE None

newAssetContext(args, creator, state) ==
    LET parsed == parseArgs(args)
        assetBytes == GetState(state, parsed.key)
    IN  IF parsed.err # ""
        THEN [ac |-> None, err |-> parsed.err]
        ELSE [ac |-> Some([creator     |-> creator,
                           asset       |-> IF assetBytes = None THEN None
                                           ELSE Some(Unmarshal(assetBytes[1])),
                           key         |-> parsed.key,
                           function    |-> parsed.function,
                           functionArg |-> parsed.arg]),
              err |-> ""]

\* What a handler hands back: its result bytes or its error, and the PutState
\* calls it made.
Failure(message) == [result |-> None, err |-> message, puts |-> <<>>]
\* A handler putting its bytes under a fixed key instead of ac.key.
Written_WrongKey(ac, assetBytes) ==
    [result |-> Some(assetBytes), err |-> "",
     puts |-> <<[key |-> AssetKey, value |-> assetBytes]>>]

Written(ac, assetBytes) ==
    [result |-> Some(assetBytes), err |-> "",
     puts |-> <<[key |-> ac.key, value |-> assetBytes]>>]
Returned(assetBytes) == [result |-> Some(assetBytes), err |-> "", puts |-> <<>>]

\* ownsAsset comparing the invoker with the first owner instead of the current one.
ownsAsset_FirstOwner(ac) ==
    IF ac.asset = None THEN FALSE
    ELSE IF Len(ac.asset[1].History) = 0 THEN FALSE
    ELSE LET assetOwner == ac.asset[1].History[1]
         IN  assetOwner.Id = ac.creator

\* ownsAsset accepting any owner the history names, not only the current one.
ownsAsset_AnyOwner(ac) ==
    IF ac.asset = None THEN FALSE
    ELSE \E i \in 1..Len(ac.asset[1].History) :
             ac.asset[1].History[i].Id = ac.creator

ownsAsset(ac) ==
    IF ac.asset = None THEN FALSE
    ELSE IF Len(ac.asset[1].History) = 0 THEN FALSE
    ELSE LET assetOwner == ac.asset[1].History[Len(ac.asset[1].History)]
         IN  assetOwner.Id = ac.creator

\* create leaving the Id of the new owner unset.
create_UnsetOwner(ac) ==
    IF ac.functionArg # None THEN Failure("Too many arguments to 'create'")
    ELSE IF ac.asset # None
    THEN Failure("Cannot create an asset who's key already exists")
    ELSE Written(ac, Marshal(Asset("", <<Owner("")>>)))

\* create without the check that the key is free.
create_Overwrite(ac) ==
    IF ac.functionArg # None THEN Failure("Too many arguments to 'create'")
    ELSE Written(ac, Marshal(Asset("", <<Owner(ac.creator)>>)))

\* create storing an asset with an empty history.
create_NoOwner(ac) ==
    IF ac.functionArg # None THEN Failure("Too many arguments to 'create'")
    ELSE IF ac.asset # None
    THEN Failure("Cannot create an asset who's key already exists")
    ELSE Written(ac, Marshal(Asset("", <<>>)))

create(ac) ==
    IF ac.functionArg # None THEN Failure("Too many arguments to 'create'")
    ELSE IF ac.asset # None
    THEN Failure("Cannot create an asset who's key already exists")
    ELSE Written(ac, Marshal(Asset("", <<Owner(ac.creator)>>)))

\* lock without the ownership check.
lock_NoOwnerCheck(ac) ==
    IF ac.functionArg = None THEN Failure("Must pass toChannel argument")
    ELSE IF ac.asset = None THEN Failure("Cannot lock asset which does not exist")
    ELSE IF ac.asset[1].LockedToChannel # ""
    THEN Failure("Asset %s is already locked to %s")
    ELSE LET toChannel == ac.functionArg[1]
         IN  Written(ac, Marshal([ac.asset[1] EXCEPT !.LockedToChannel = toChannel]))

\* lock marshaling a fresh Asset that carries the channel but not the history.
lock_DropsHistory(ac) ==
    IF ac.functionArg = None THEN Failure("Must pass toChannel argument")
    ELSE IF ac.asset = None THEN Failure("Cannot lock asset which does not exist")
    ELSE IF ac.asset[1].LockedToChannel # ""
    THEN Failure("Asset %s is already locked to %s")
    ELSE IF ~ownsAsset(ac) THEN Failure("Not authorized to lock asset %s")
    ELSE LET toChannel == ac.functionArg[1]
         IN  Written(ac, Marshal(Asset(toChannel, <<>>)))

lock(ac) ==
    IF ac.functionArg = None THEN Failure("Must pass toChannel argument")
    ELSE IF ac.asset = None THEN Failure("Cannot lock asset which does not exist")
    ELSE IF ac.asset[1].LockedToChannel # ""
    THEN Failure("Asset %s is already locked to %s")
    ELSE IF ~ownsAsset(ac) THEN Failure("Not authorized to lock asset %s")
    ELSE LET toChannel == ac.functionArg[1]
         IN  Written(ac, Marshal([ac.asset[1] EXCEPT !.LockedToChannel = toChannel]))

\* show comparing the history lengths with > in place of >=.
show_StrictlyLonger(ac) ==
    IF ac.functionArg = None THEN Failure("Must pass fromChannel argument")
    ELSE IF ac.asset # None /\ ac.asset[1].LockedToChannel = ""
    THEN Failure("Cannot show an extant unlocked asset")
    ELSE LET fromAsset == Asset("", <<Owner(ac.creator)>>)
         IN  IF ac.asset # None
                /\ Len(ac.asset[1].History) > Len(fromAsset.History)
             THEN Failure("Asset has already been shown with newer history")
             ELSE Written(ac, Marshal(Asset("",
                      Append(fromAsset.History,
                             fromAsset.History[Len(fromAsset.History)]))))

\* show storing the fetched history as it is, without the duplicated last owner.
show_NoDuplicate(ac) ==
    IF ac.functionArg = None THEN Failure("Must pass fromChannel argument")
    ELSE IF ac.asset # None /\ ac.asset[1].LockedToChannel = ""
    THEN Failure("Cannot show an extant unlocked asset")
    ELSE LET fromAsset == Asset("", <<Owner(ac.creator)>>)
         IN  IF ac.asset # None
                /\ Len(ac.asset[1].History) >= Len(fromAsset.History)
             THEN Failure("Asset has already been shown with newer history")
             ELSE Written(ac, Marshal(Asset("", fromAsset.History)))

\* show without the comparison of the history lengths.
show_NoHistoryCheck(ac) ==
    IF ac.functionArg = None THEN Failure("Must pass fromChannel argument")
    ELSE IF ac.asset # None /\ ac.asset[1].LockedToChannel = ""
    THEN Failure("Cannot show an extant unlocked asset")
    ELSE LET fromAsset == Asset("", <<Owner(ac.creator)>>)
         IN  Written(ac, Marshal(Asset("",
                 Append(fromAsset.History,
                        fromAsset.History[Len(fromAsset.History)]))))

show(ac) ==
    IF ac.functionArg = None THEN Failure("Must pass fromChannel argument")
    ELSE IF ac.asset # None /\ ac.asset[1].LockedToChannel = ""
    THEN Failure("Cannot show an extant unlocked asset")
    ELSE LET fromAsset == Asset("", <<Owner(ac.creator)>>)
         IN  IF ac.asset # None
                /\ Len(ac.asset[1].History) >= Len(fromAsset.History)
             THEN Failure("Asset has already been shown with newer history")
             ELSE Written(ac, Marshal(Asset("",
                      Append(fromAsset.History,
                             fromAsset.History[Len(fromAsset.History)]))))

\* transfer overwriting the current owner instead of appending the new one.
transfer_ReplacesOwner(ac) ==
    IF ac.functionArg = None THEN Failure("Must pass target to transfer to")
    ELSE IF ac.asset = None
    THEN Failure("Cannot transfer an asset which does not exist")
    ELSE IF ac.asset[1].LockedToChannel # ""
    THEN Failure("Cannot transfer an asset which has been locked to another channel")
    ELSE IF ~ownsAsset(ac) THEN Failure("Not authorized to transfer asset %s")
    ELSE LET toID == ac.functionArg[1]
         IN  Written(ac, Marshal([ac.asset[1] EXCEPT
                 !.History = [@ EXCEPT ![Len(@)] = Owner(toID)]]))

\* transfer putting the new state before it checks the ownership.
transfer_WritesBeforeAuth(ac) ==
    IF ac.functionArg = None THEN Failure("Must pass target to transfer to")
    ELSE IF ac.asset = None
    THEN Failure("Cannot transfer an asset which does not exist")
    ELSE IF ac.asset[1].LockedToChannel # ""
    THEN Failure("Cannot transfer an asset which has been locked to another channel")
    ELSE LET toID == ac.functionArg[1]
             written == Written(ac, Marshal([ac.asset[1] EXCEPT
                                               !.History = Append(@, Owner(toID))]))
         IN  IF ~ownsAsset(ac)
             THEN [Failure("Not authorized to transfer asset %s") EXCEPT
                      !.puts = written.puts]
             ELSE written

\* transfer checking the ownership before the lock.
transfer_OwnerFirst(ac) ==
    IF ac.functionArg = None THEN Failure("Must pass target to transfer to")
    ELSE IF ac.asset = None
    THEN Failure("Cannot transfer an asset which does not exist")
    ELSE IF ~ownsAsset(ac) THEN Failure("Not authorized to transfer asset %s")
    ELSE IF ac.asset[1].LockedToChannel # ""
    THEN Failure("Cannot transfer an asset which has been locked to another channel")
    ELSE LET toID == ac.functionArg[1]
         IN  Written(ac, Marshal([ac.asset[1] EXCEPT
                                     !.History = Append(@, Owner(toID))]))

transfer(ac) ==
    IF ac.functionArg = None THEN Failure("Must pass target to transfer to")
    ELSE IF ac.asset = None
    THEN Failure("Cannot transfer an asset which does not exist")
    ELSE IF ac.asset[1].LockedToChannel # ""
    THEN Failure("Cannot transfer an asset which has been locked to another channel")
    ELSE IF ~ownsAsset(ac) THEN Failure("Not authorized to transfer asset %s")
    ELSE LET toID == ac.functionArg[1]
         IN  Written(ac, Marshal([ac.asset[1] EXCEPT
                                     !.History = Append(@, Owner(toID))]))

\* query answering the owner only.
query_OwnerOnly(ac) ==
    IF ac.functionArg = None THEN Failure("Too many args to 'query'")
    ELSE IF ac.asset = None THEN Failure("No asset found")
    ELSE IF ~ownsAsset(ac) THEN Failure("Not authorized to query asset %s")
    ELSE Returned(Marshal(ac.asset[1]))

query(ac) ==
    IF ac.functionArg = None THEN Failure("Too many args to 'query'")
    ELSE IF ac.asset = None THEN Failure("No asset found")
    ELSE Returned(Marshal(ac.asset[1]))

\* shim.Success and shim.Error.
Success(payload) == [ok |-> TRUE, payload |-> payload, message |-> ""]
Error(message) == [ok |-> FALSE, payload |-> None, message |-> message]

execute(ac) ==
    LET handled ==
            CASE ac.function = "create"   -> create(ac)
              [] ac.function = "lock"     -> lock(ac)
              [] ac.function = "show"     -> show(ac)
              [] ac.function = "transfer" -> transfer(ac)
              [] ac.function = "query"    -> query(ac)
              [] OTHER                    -> Failure("Invalid invocation function")
    IN  [response |-> IF handled.err # "" THEN Error(handled.err)
                      ELSE Success(handled.result),
         puts |-> handled.puts]

\* AssetRegistry.Invoke on the state of one ledger.
Run(args, creator, state) ==
    LET ctx == newAssetContext(args, creator, state)
    IN  IF ctx.err # ""
        THEN [ac |-> None, response |-> Error(ctx.err), puts |-> <<>>]
        ELSE [ac |-> ctx.ac] @@ execute(ctx.ac[1])

RECURSIVE PutState(_, _)
PutState(state, puts) ==
    IF puts = <<>> THEN state
    ELSE PutState([state EXCEPT ![puts[1].key] = Some(puts[1].value)], Tail(puts))

\* No stored history is longer than the model follows.
WithinBounds(state) ==
    \A k \in DOMAIN state :
        state[k] # None => Len(Unmarshal(state[k][1]).History) <= MaxHistory

\* One invocation on `channel` with argument list `args` by `creator`.
Invoke(channel, args, creator) ==
    \E ran \in {Run(args, creator, ledger[channel])} :
        \E after \in {PutState(ledger[channel], ran.puts)} :
            /\ WithinBounds(after)
            /\ ledger' = [ledger EXCEPT ![channel] = after]
            /\ call' = Some([channel  |-> channel,
                             args     |-> args,
                             creator  |-> creator,
                             ac       |-> ran.ac,
                             response |-> ran.response,
                             puts     |-> ran.puts])
            /\ lockSucceeded' =
                   IF /\ ran.ac # None
                      /\ ran.ac[1].function = "lock"
                      /\ ran.response.ok
                   THEN lockSucceeded \cup {<<channel, ran.ac[1].key>>}
                   ELSE lockSucceeded

\* The optional third argument: absent, or one of `bytes`.
OptionalArgs(bytes) == {None} \cup {Some(b) : b \in bytes}

Create(channel, key, arg, creator)   == Invoke(channel, <<"create", key>> \o arg, creator)
Lock(channel, key, arg, creator)     == Invoke(channel, <<"lock", key>> \o arg, creator)
Show(channel, key, arg, creator)     == Invoke(channel, <<"show", key>> \o arg, creator)
Transfer(channel, key, arg, creator) == Invoke(channel, <<"transfer", key>> \o arg, creator)
Query(channel, key, arg, creator)    == Invoke(channel, <<"query", key>> \o arg, creator)
\* A function name execute does not know.
Unknown(channel, key, arg, creator)  == Invoke(channel, <<"destroy", key>> \o arg, creator)
\* An argument list parseArgs rejects: none, one, or four arguments.
Malformed(channel, key, creator) ==
    \E args \in {<<>>, <<"create">>, <<"transfer", key, "alice", "bob">>} :
        Invoke(channel, args, creator)

Init ==
    /\ ledger = [c \in Channels |-> [k \in Keys |-> None]]
    /\ call = None
    /\ lockSucceeded = {}

\* One ledger, one key: every operation with its argument absent, empty or set,
\* unknown function names and argument lists of every length.
Next ==
    \E creator \in Identities :
        \/ \E arg \in OptionalArgs(ExtraArgs) :
               Create(LocalChannel, AssetKey, arg, creator)
        \/ \E arg \in OptionalArgs(ChannelNames) :
               Lock(LocalChannel, AssetKey, arg, creator)
        \/ \E arg \in OptionalArgs(ChannelNames) :
               Show(LocalChannel, AssetKey, arg, creator)
        \/ \E arg \in OptionalArgs(OwnerIds) :
               Transfer(LocalChannel, AssetKey, arg, creator)
        \/ \E arg \in OptionalArgs(ExtraArgs) :
               Query(LocalChannel, AssetKey, arg, creator)
        \/ \E arg \in OptionalArgs(ExtraArgs) :
               Unknown(LocalChannel, AssetKey, arg, creator)
        \/ Malformed(LocalChannel, AssetKey, creator)

Spec == Init /\ [][Next]_vars

\* Two ledgers holding the same key: each operation as documented, locking to
\* and showing from the other ledger.
NextTwoLedgers ==
    \E channel \in Channels, creator \in Identities :
        \/ Show(channel, AssetKey, Some(OtherChannel(channel)), creator)
        \/ Create(channel, AssetKey, None, creator)
        \/ Lock(channel, AssetKey, Some(OtherChannel(channel)), creator)
        \/ \E toOwner \in Identities :
               Transfer(channel, AssetKey, Some(toOwner), creator)
        \/ \E arg \in OptionalArgs({""}) :
               Query(channel, AssetKey, arg, creator)

SpecTwoLedgers == Init /\ [][NextTwoLedgers]_vars

\* Every stored history has at most n owners.
HistoriesWithin(n) ==
    \A channel \in Channels : \A key \in Keys :
        ledger[channel][key] # None =>
            Len(Unmarshal(ledger[channel][key][1]).History) <= n

\* One ledger, two keys: each operation as documented and unknown function
\* names on either key, and rejected argument lists.  With two keys the
\* histories are followed one owner less far.
NextTwoKeys ==
    /\ \E creator \in Identities :
           \/ \E key \in Keys :
                  \/ Create(LocalChannel, key, None, creator)
                  \/ Lock(LocalChannel, key, Some(OtherChannel(LocalChannel)), creator)
                  \/ Show(LocalChannel, key, Some(OtherChannel(LocalChannel)), creator)
                  \/ \E toOwner \in Identities :
                         Transfer(LocalChannel, key, Some(toOwner), creator)
                  \/ \E arg \in OptionalArgs({""}) :
                         Query(LocalChannel, key, arg, creator)
                  \/ Unknown(LocalChannel, key, None, creator)
           \/ Malformed(LocalChannel, AssetKey, creator)
    /\ HistoriesWithin(MaxHistory - 1)'

SpecTwoKeys == Init /\ [][NextTwoKeys]_vars

----------------------------------------------------------------------------
(* Vocabulary of the properties.                                           *)

\* The error kinds of the design's taxonomy, as sets of the code's messages.
BadRequest ==
    {"Invoke called with only one argument", "Invoke called with no arguments",
     "Invoke called with too many arguments", "Invalid invocation function",
     "Too many arguments to 'create'", "Must pass toChannel argument",
     "Must pass fromChannel argument", "Must pass target to transfer to",
     "Too many args to 'query'"}
NotFound ==
    {"Cannot lock asset which does not exist",
     "Cannot transfer an asset which does not exist", "No asset found"}
Conflict ==
    {"Cannot create an asset who's key already exists",
     "Asset %s is already locked to %s", "Cannot show an extant unlocked asset",
     "Asset has already been shown with newer history",
     "Cannot transfer an asset which has been locked to another channel"}
Unauthorized ==
    {"Not authorized to lock asset %s", "Not authorized to transfer asset %s"}

\* The last invocation, once there is one, and its context, once parseArgs
\* accepted the argument list.
Called == call # None
Last == call[1]
Dispatched == Called /\ Last.ac # None
Ctx == Last.ac[1]
\* The asset the invocation found at its key, and whether it found one.
Found == Ctx.asset # None
Before == Ctx.asset[1]
\* What is stored at the invocation's key now.
StoredBytes == ledger[Last.channel][Ctx.key]
Stored == Unmarshal(StoredBytes[1])
\* The invocation left its key as it found it.
Untouched ==
    /\ Last.puts = <<>>
    /\ IF Found THEN StoredBytes # None /\ Stored = Before ELSE StoredBytes = None
\* The invoker is the last element of the history the invocation found.
InvokerIsTail ==
    /\ Found
    /\ Len(Before.History) > 0
    /\ Before.History[Len(Before.History)].Id = Last.creator
Failed(kind) == ~Last.response.ok /\ Last.response.message \in kind
Succeeded == Last.response.ok

Exists(channel, key) == ledger[channel][key] # None
AssetAt(channel, key) == Unmarshal(ledger[channel][key][1])
Active(channel, key) ==
    Exists(channel, key) /\ AssetAt(channel, key).LockedToChannel = ""
Locked(channel, key) ==
    Exists(channel, key) /\ AssetAt(channel, key).LockedToChannel # ""

----------------------------------------------------------------------------
(* Properties.                                                             *)

\* C1: with two ledgers, no asset key is ever active (existing with empty
\* lockedToChannel) on both ledgers at once.
C1_NeverActiveOnTwoLedgers ==
    \A key \in Keys : \A c1 \in Channels : \A c2 \in Channels \ {c1} :
        ~(Active(c1, key) /\ Active(c2, key))

\* C2: once the stored lockedToChannel of an asset is not empty, no invocation
\* changes what is stored at its key.
C2_LockedAssetIsFrozen ==
    [][\A channel \in Channels : \A key \in Keys :
          Locked(channel, key) => ledger'[channel][key] = ledger[channel][key]]_vars

\* A locked asset on which show(k, fromChannel) has just been invoked.
C2_ShowOnLockedAsset ==
    /\ Dispatched
    /\ Ctx.function = "show"
    /\ Ctx.functionArg # None
    /\ Found
    /\ Before.LockedToChannel # ""
    /\ Locked(Last.channel, Ctx.key)

\* C3: after a lock(k, toChannel) with its argument present has succeeded, every
\* later lock and transfer on k fails, whoever invokes it.
C3_LockDisablesLockAndTransfer ==
    [][\A cell \in lockSucceeded :
          (/\ call' # None
           /\ call'[1].ac # None
           /\ call'[1].channel = cell[1]
           /\ call'[1].ac[1].key = cell[2]
           /\ call'[1].ac[1].function \in {"lock", "transfer"})
          => ~call'[1].response.ok]_vars

\* C4: query(k) without extra argument on an existing asset succeeds for every
\* invoker and returns the stored asset; query with an extra argument fails
\* BadRequest; query without extra argument on a missing key fails NotFound.
C4_QueryContract ==
    (Dispatched /\ Ctx.function = "query") =>
        /\ (Ctx.functionArg = None /\ Found) =>
               (Succeeded /\ Last.response.payload = StoredBytes)
        /\ (Ctx.functionArg # None) => Failed(BadRequest)
        /\ (Ctx.functionArg = None /\ ~Found) => Failed(NotFound)

\* C5: create(k) by i on a missing key, followed directly by query(k), yields
\* success with an asset whose history is exactly [i] and which is unlocked.
C5_CreateThenQuery ==
    [][(/\ call # None
        /\ call[1].ac # None
        /\ call[1].ac[1].function = "create"
        /\ call[1].ac[1].asset = None
        /\ call[1].response.ok
        /\ call' # None
        /\ call'[1].ac # None
        /\ call'[1].channel = call[1].channel
        /\ call'[1].ac[1].key = call[1].ac[1].key
        /\ call'[1].ac[1].function = "query"
        /\ call'[1].ac[1].functionArg = None)
       => /\ call'[1].response.ok
          /\ call'[1].response.payload # None
          /\ Unmarshal(call'[1].response.payload[1])
                 = Asset("", <<Owner(call[1].creator)>>)]_vars

\* C6: create(k) without extra argument on a missing key succeeds for any invoker
\* i, stores {lockedToChannel: "", history: [i]} and returns what it stored.
C6_CreateStoresNewAsset ==
    (Dispatched /\ Ctx.function = "create" /\ Ctx.functionArg = None /\ ~Found) =>
        /\ Succeeded
        /\ StoredBytes # None
        /\ Stored = Asset("", <<Owner(Last.creator)>>)
        /\ Len(Stored.History) = 1
        /\ Last.response.payload = StoredBytes

\* A create on a missing key has just run.
C6_CreateOnMissingKey ==
    /\ Dispatched
    /\ Ctx.function = "create"
    /\ Ctx.functionArg = None
    /\ ~Found
    /\ Exists(Last.channel, Ctx.key)

\* C7: create(k) on a key where an asset exists fails with Conflict for every
\* invoker, locked or not, and leaves the stored asset unchanged.
C7_CreateOnExistingFails ==
    (Dispatched /\ Ctx.function = "create" /\ Ctx.functionArg = None /\ Found) =>
        (Failed(Conflict) /\ Untouched)

\* The owner has just tried to create over its own locked asset.
C7_CreateByOwnerOnLockedAsset ==
    /\ Dispatched
    /\ Ctx.function = "create"
    /\ Ctx.functionArg = None
    /\ Found
    /\ Before.LockedToChannel # ""
    /\ InvokerIsTail
    /\ ~Succeeded

\* C8: on an existing unlocked asset, transfer(k, x) by an invoker who is not the
\* last element of the history fails Unauthorized and changes nothing; by the
\* last element it succeeds and stores the old history with x appended, still
\* unlocked.
C8_TransferOwnershipGate ==
    (/\ Dispatched
     /\ Ctx.function = "transfer"
     /\ Ctx.functionArg # None
     /\ Found
     /\ Before.LockedToChannel = "")
    => IF InvokerIsTail
       THEN /\ Succeeded
            /\ StoredBytes # None
            /\ Stored.LockedToChannel = ""
            /\ Len(Stored.History) = Len(Before.History) + 1
            /\ SubSeq(Stored.History, 1, Len(Before.History)) = Before.History
            /\ Stored.History[Len(Stored.History)] = Owner(Ctx.functionArg[1])
       ELSE Failed(Unauthorized) /\ Untouched

\* An asset that has changed hands, on which the first owner, no longer the
\* owner, has just tried a transfer.
C8_FormerOwnerTransfers ==
    /\ Dispatched
    /\ Ctx.function = "transfer"
    /\ Ctx.functionArg # None
    /\ Found
    /\ Before.LockedToChannel = ""
    /\ Len(Before.History) > 1
    /\ Before.History[1].Id = Last.creator
    /\ ~InvokerIsTail

\* C9: lock(k, toChannel) by an identity that is not the last history element of
\* an existing asset never succeeds and changes nothing; on an unlocked asset,
\* with the argument present, the failure is Unauthorized.
C9_LockRequiresOwnership ==
    (Dispatched /\ Ctx.function = "lock" /\ Found /\ ~InvokerIsTail) =>
        /\ ~Succeeded
        /\ Untouched
        /\ (Ctx.functionArg # None /\ Before.LockedToChannel = "")
               => Failed(Unauthorized)

\* A non-owner has just tried to lock an unlocked asset.
C9_LockByNonOwner ==
    /\ Dispatched
    /\ Ctx.function = "lock"
    /\ Ctx.functionArg # None
    /\ Found
    /\ Before.LockedToChannel = ""
    /\ ~InvokerIsTail

\* C10: lock(k, toChannel) by the current owner on an existing unlocked asset,
\* argument present, succeeds; afterwards the stored lockedToChannel is
\* toChannel and the stored history is the history before the call.
C10_LockSetsChannel ==
    (/\ Dispatched
     /\ Ctx.function = "lock"
     /\ Ctx.functionArg # None
     /\ Found
     /\ Before.LockedToChannel = ""
     /\ InvokerIsTail)
    => /\ Succeeded
       /\ StoredBytes # None
       /\ Stored.LockedToChannel = Ctx.functionArg[1]
       /\ Stored.History = Before.History

\* The owner has just locked an asset with two owners in its history to "ch2".
C10_OwnerLockedToChannel ==
    /\ Dispatched
    /\ Ctx.function = "lock"
    /\ Ctx.functionArg = Some("ch2")
    /\ Found
    /\ Before.LockedToChannel = ""
    /\ Len(Before.History) = 2
    /\ InvokerIsTail
    /\ Locked(Last.channel, Ctx.key)

\* h is a prefix of g.
IsPrefix(h, g) == Len(h) <= Len(g) /\ SubSeq(g, 1, Len(h)) = h

\* C11: across every invocation of every operation, the stored history of a key
\* never gets shorter and never changes an element it had: the history before
\* the step is a prefix of the history after it.
C11_HistoryOnlyGrows ==
    [][\A channel \in Channels : \A key \in Keys :
          Exists(channel, key) =>
              /\ ledger'[channel][key] # None
              /\ IsPrefix(AssetAt(channel, key).History,
                          Unmarshal(ledger'[channel][key][1]).History)]_vars

\* A transfer has just extended a history of two owners to a third, different one.
C11_TransferExtendedHistory ==
    /\ Dispatched
    /\ Ctx.function = "transfer"
    /\ Succeeded
    /\ Len(Before.History) = 2
    /\ StoredBytes # None
    /\ Len(Stored.History) = 3
    /\ Stored.History[3] # Stored.History[2]

\* C12: every asset that exists has a history of at least one element, and the
\* ownership check never meets an empty history.
C12_HistoryNeverEmpty ==
    /\ \A channel \in Channels : \A key \in Keys :
           Exists(channel, key) => Len(AssetAt(channel, key).History) >= 1
    /\ (Dispatched /\ Found) => Len(Before.History) >= 1

\* The ownership check has just run on an existing unlocked asset.
C12_OwnershipChecked ==
    /\ Dispatched
    /\ Ctx.function \in {"lock", "transfer"}
    /\ Ctx.functionArg # None
    /\ Found
    /\ Before.LockedToChannel = ""
    /\ Len(Before.History) >= 1

\* C13: every show that succeeds leaves the stored asset unlocked with a history
\* of exactly two elements, both the invoker's identity, whatever fromChannel is.
C13_ShowStoresInvokerTwice ==
    (Dispatched /\ Ctx.function = "show" /\ Succeeded) =>
        /\ StoredBytes # None
        /\ Stored.LockedToChannel = ""
        /\ Len(Stored.History) = 2
        /\ Stored.History = <<Owner(Last.creator), Owner(Last.creator)>>

\* A show naming a channel has just succeeded.
C13_ShowSucceeded ==
    /\ Dispatched
    /\ Ctx.function = "show"
    /\ Ctx.functionArg = Some("ch2")
    /\ Succeeded

\* C14: every invocation performs at most one ledger write, and an invocation
\* that fails performs none: the ledger after it is the ledger before it.
C14_FailureWritesNothing ==
    [][call' # None =>
          /\ Len(call'[1].puts) <= 1
          /\ ~call'[1].response.ok =>
                 (call'[1].puts = <<>> /\ ledger' = ledger)]_vars

\* A transfer by a non-owner has just failed on an existing unlocked asset.
C14_UnauthorizedTransferFailed ==
    /\ Dispatched
    /\ Ctx.function = "transfer"
    /\ Ctx.functionArg # None
    /\ Found
    /\ Before.LockedToChannel = ""
    /\ ~InvokerIsTail
    /\ ~Succeeded
    /\ Last.puts = <<>>

\* C15: no query changes the stored state of any key, and a query directly
\* following a query of the same key with the same argument returns the same
\* result.
C15_QueryReadOnly ==
    [][(call' # None /\ call'[1].ac # None /\ call'[1].ac[1].function = "query") =>
          /\ ledger' = ledger
          /\ call'[1].puts = <<>>
          /\ (/\ call # None
              /\ call[1].ac # None
              /\ call[1].ac[1].function = "query"
              /\ call[1].channel = call'[1].channel
              /\ call[1].ac[1].key = call'[1].ac[1].key
              /\ call[1].ac[1].functionArg = call'[1].ac[1].functionArg)
             => call'[1].response = call[1].response]_vars

\* A query by someone who is not the owner has just returned the stored asset.
C15_QueryReturnedAsset ==
    /\ Dispatched
    /\ Ctx.function = "query"
    /\ Succeeded
    /\ ~InvokerIsTail
    /\ Last.response.payload = StoredBytes

\* C16: an invocation on key k reads and writes only k: the context holds what
\* was stored at k, every put is to k, and what is stored at every other key
\* (and, when parseArgs rejects the arguments, at every key) is unchanged.
C16_OnlyTargetKeyTouched ==
    [][call' # None =>
          IF call'[1].ac = None
          THEN ledger' = ledger /\ call'[1].puts = <<>>
          ELSE /\ \A channel \in Channels : \A key \in Keys :
                      <<channel, key>> # <<call'[1].channel, call'[1].ac[1].key>>
                          => ledger'[channel][key] = ledger[channel][key]
               /\ \A i \in 1..Len(call'[1].puts) :
                      call'[1].puts[i].key = call'[1].ac[1].key
               /\ call'[1].ac[1].key = call'[1].args[2]
               /\ call'[1].ac[1].asset =
                      IF ledger[call'[1].channel][call'[1].args[2]] = None
                      THEN None
                      ELSE Some(Unmarshal(
                               ledger[call'[1].channel][call'[1].args[2]][1]))]_vars

\* An invocation has just written k2 while k1 holds a different asset.
C16_WroteSecondKey ==
    /\ Dispatched
    /\ Ctx.key = "k2"
    /\ Succeeded
    /\ Last.puts # <<>>
    /\ Exists(Last.channel, "k1")
    /\ ledger[Last.channel]["k1"] # ledger[Last.channel]["k2"]

\* The function names execute routes to a handler.
KnownFunctions == {"create", "lock", "show", "transfer", "query"}

\* C17: an invocation with 0, 1 or at least 4 arguments, or with 2 or 3 arguments
\* whose first is no known function name, fails BadRequest and writes nothing;
\* with 2 arguments the optional argument is absent, with 3 it is the third.
C17_ArgumentShape ==
    Called =>
        IF Len(Last.args) \notin {2, 3}
        THEN /\ Last.ac = None
             /\ Failed(BadRequest)
             /\ Last.puts = <<>>
        ELSE /\ Last.ac # None
             /\ Ctx.function = Last.args[1]
             /\ Ctx.key = Last.args[2]
             /\ Ctx.functionArg =
                    IF Len(Last.args) = 2 THEN None ELSE Some(Last.args[3])
             /\ Last.args[1] \notin KnownFunctions =>
                    (Failed(BadRequest) /\ Untouched)

\* An unknown function name has just been invoked with three arguments on an
\* existing asset.
C17_UnknownFunctionWithArgument ==
    /\ Dispatched
    /\ Len(Last.args) = 3
    /\ Last.args[1] \notin KnownFunctions
    /\ Found

\* C18: show(k, fromChannel) succeeds exactly when fromChannel is present and no
\* asset exists at k; on every existing asset, unlocked or locked, it fails
\* with Conflict and leaves the asset unchanged.
C18_ShowOnlyOnMissingKey ==
    (Dispatched /\ Ctx.function = "show") =>
        /\ Succeeded <=> (Ctx.functionArg # None /\ ~Found)
        /\ Found => (~Succeeded /\ Untouched)
        /\ (Found /\ Ctx.functionArg # None) => Failed(Conflict)

\* A show has just been refused on an existing unlocked asset.
C18_ShowOnUnlockedAsset ==
    /\ Dispatched
    /\ Ctx.function = "show"
    /\ Ctx.functionArg # None
    /\ Found
    /\ Before.LockedToChannel = ""
    /\ ~Succeeded

\* C19: lock and transfer report the first violated precondition in the order
\* argument present (BadRequest), asset exists (NotFound), asset unlocked
\* (Conflict), invoker owns (Unauthorized).
C19_PreconditionOrder ==
    (Dispatched /\ Ctx.function \in {"lock", "transfer"}) =>
        IF Ctx.functionArg = None THEN Failed(BadRequest)
        ELSE IF ~Found THEN Failed(NotFound)
        ELSE IF Before.LockedToChannel # "" THEN Failed(Conflict)
        ELSE IF ~InvokerIsTail THEN Failed(Unauthorized)
        ELSE Succeeded

\* A non-owner has just tried a transfer on a locked asset.
C19_NonOwnerOnLockedAsset ==
    /\ Dispatched
    /\ Ctx.function = "transfer"
    /\ Ctx.functionArg # None
    /\ Found
    /\ Before.LockedToChannel # ""
    /\ ~InvokerIsTail

\* The invoker has owned the asset the invocation found.  The history is the
\* record of the transfers: an identity that is in it and is not its last
\* element has transferred the asset away and has not been made the owner
\* again since.
InvokerIsFormerOwner ==
    /\ Found
    /\ \E i \in 1..Len(Before.History) : Before.History[i].Id = Last.creator
    /\ ~InvokerIsTail
LockOrTransfer ==
    Dispatched /\ Ctx.function \in {"lock", "transfer"} /\ Ctx.functionArg # None

\* C20 as stated: only the last history element can lock or transfer; after i
\* has transferred k away, every later lock or transfer of k by i fails
\* Unauthorized until a transfer makes i the last element again, while the new
\* owner can lock or transfer the unlocked asset.
C20_FormerOwnerUnauthorized ==
    /\ (LockOrTransfer /\ Succeeded) => InvokerIsTail
    /\ (LockOrTransfer /\ InvokerIsFormerOwner) => Failed(Unauthorized)
    /\ (LockOrTransfer /\ InvokerIsTail /\ Before.LockedToChannel = "") => Succeeded

\* C20 amended: as above, but the lock or transfer of a former owner fails
\* Unauthorized while the asset is unlocked and Conflict once it is locked.
C20_OwnershipFollowsTail ==
    /\ (LockOrTransfer /\ Succeeded) => InvokerIsTail
    /\ (LockOrTransfer /\ InvokerIsFormerOwner) =>
           IF Before.LockedToChannel = "" THEN Failed(Unauthorized)
           ELSE Failed(Conflict)
    /\ (LockOrTransfer /\ InvokerIsTail /\ Before.LockedToChannel = "") => Succeeded

\* An identity that gave the asset away and got it back has just locked it.
C20_RegainedOwnerLocks ==
    /\ LockOrTransfer
    /\ Ctx.function = "lock"
    /\ Found
    /\ Len(Before.History) = 3
    /\ Before.History[1].Id = Last.creator
    /\ Before.History[2].Id # Last.creator
    /\ InvokerIsTail
    /\ Succeeded

====
